---- MODULE Spec2Model ----
(***************************************************************************)
(* A state-machine model of the exploration core:                          *)
(*   - PageExplorationWorkflow (src/page_exploration.py): run,             *)
(*     explore_recursively / explore, explore_page, save_results;          *)
(*   - Player (src/browser_use/player/service.py): run, load_page,         *)
(*     explore_page with click / go_back backtracking.                     *)
(* The recursion of both crawlers is an explicit call stack of frames.     *)
(***************************************************************************)
EXTENDS Integers, Sequences, FiniteSets, TLC

\* ------------------------------------------------------------------ bounds

\* Total number of inventoried elements the site serves during one run.
MaxSiteLinks == 4
\* Number of elements in the selector map of one page.
MaxLinks == 2
\* run(start_url, max_depth) is called with max_depth in 0..MaxDepthBound.
MaxDepthBound == 3
\* Number of analyzer responses of one run that are not JSON.
MaxBadJson == 1
\* Total number of elements collect_clickable_elements returns during one
\* Player run.
MaxElems == 4
\* Number of controller actions of one Player run that do not succeed.
MaxFaults == 2
\* Number of _invoke_llm calls in one sequence.
MaxCalls == 3
\* Number of add_element_note calls.
MaxNotes == 2
\* Number of save_results calls on one workflow object.
MaxSaves == 2
\* Number of patterns in allowed_domains.
MaxPatterns == 2
\* Number of segments of an xpath.
MaxSegments == 3
\* Number of attributes of an element.
MaxAttrs == 3
\* Number of open tabs.
MaxTabs == 3
\* Number of tab operations of one session.
MaxTabOps == 4

\* ------------------------------------------------------------- URL strings

None == "None"
Blank == "about:blank"

Root == "http://s"
PageB == "http://s/b"
PageC == "http://s/c"
PageD == "http://s/d"
Other == "http://x"

SiteUrls == {Root, PageB, PageC, PageD}
Hrefs == SiteUrls \cup {Other}

\* A page without links, whose elements differ in clickability and score.
Plain == "http://p"

\* A site whose start url is a proper prefix of another host's url.
SiteT == "http://t"
Evil == "http://t.evil"

AllUrls == Hrefs \cup {Plain, SiteT, Evil}
StartUrls == {Root, PageB, Plain, SiteT}

\* The characters of a URL, in chunks: str.startswith compares them in order.
Chunks(u) ==
  CASE u = Root -> <<"http://s">>
    [] u = PageB -> <<"http://s", "/b">>
    [] u = PageC -> <<"http://s", "/c">>
    [] u = PageD -> <<"http://s", "/d">>
    [] u = Other -> <<"http://x">>
    [] u = Plain -> <<"http://p">>
    [] u = SiteT -> <<"http://t">>
    [] u = Evil -> <<"http://t", ".evil">>
    [] OTHER -> <<u>>

StartsWith(u, prefix) ==
  LET a == Chunks(u)
      b == Chunks(prefix)
  IN  Len(b) <= Len(a) /\ SubSeq(a, 1, Len(b)) = b

\* The host part of a url.
Host(u) ==
  CASE u \in SiteUrls -> "s"
    [] u = Other -> "x"
    [] u = Plain -> "p"
    [] u = SiteT -> "t"
    [] u = Evil -> "t.evil"
    [] OTHER -> u

\* ---------------------------------------------------------------- elements

\* One entry of the selector map together with the analyzer's answer for it:
\* href (None: no href attribute), is_clickable, and the parsed response
\* (json_ok = FALSE: the text was not JSON; importance in tenths).
Element(h, c, ok, imp) ==
  [href |-> h, is_clickable |-> c, json_ok |-> ok, importance |-> imp]

CrawlElements ==
  {Element(h, TRUE, TRUE, 5) : h \in Hrefs \cup {None}}

\* importance_score values the analyzer may answer, in tenths: below, at and
\* above both thresholds, and outside 0..10.
Scores == {-1, 3, 4, 5, 7, 8, 12}

\* Elements of the page without links; a response that is not JSON has no score.
PlainElements ==
  {Element(None, c, TRUE, imp) : c \in BOOLEAN, imp \in Scores}
    \cup {Element(None, c, FALSE, 0) : c \in BOOLEAN}

PrefixElements ==
  {Element(h, TRUE, TRUE, 5) : h \in {Evil, None}}

\* The elements the pages of the site under start url s are made of.
SiteElements(s) ==
  CASE s = Plain -> PlainElements
    [] s = SiteT -> PrefixElements
    [] OTHER -> CrawlElements

RECURSIVE SeqsUpTo(_, _)
SeqsUpTo(S, n) ==
  IF n = 0 THEN {<<>>}
  ELSE LET shorter == SeqsUpTo(S, n - 1)
       IN  shorter \cup {Append(s, e) : s \in {t \in shorter : Len(t) = n - 1}, e \in S}

\* The site's pages are named in the order a run first meets them: a url of
\* the site not met so far is the first such url of UrlOrder.
UrlOrder == <<Root, PageB, PageC, PageD>>

NextFresh(met) ==
  LET firsts == {i \in 1..Len(UrlOrder) : UrlOrder[i] \notin met}
  IN  IF firsts = {} THEN None
      ELSE UrlOrder[CHOOSE i \in firsts : \A j \in firsts : i <= j]

RECURSIVE MetAfter(_, _, _)
MetAfter(inv, i, met) ==
  IF i > Len(inv) THEN met
  ELSE MetAfter(inv, i + 1, met \cup ({inv[i].href} \cap SiteUrls))

RECURSIVE NamedInOrder(_, _, _)
NamedInOrder(inv, i, met) ==
  IF i > Len(inv) THEN TRUE
  ELSE IF inv[i].href \in SiteUrls \ met
       THEN inv[i].href = NextFresh(met)
            /\ NamedInOrder(inv, i + 1, met \cup {inv[i].href})
       ELSE NamedInOrder(inv, i + 1, met)

Min(a, b) == IF a <= b THEN a ELSE b

\* The selector maps a page may serve when n elements are left to the site
\* and the urls in met were met: at most MaxLinks elements, in capture order.
Inventories(s, n, met) ==
  {inv \in SeqsUpTo(SiteElements(s), Min(n, MaxLinks)) : NamedInOrder(inv, 1, met)}

\* Number of element responses of an inventory that are not JSON.
BadResponses(inv) == Cardinality({i \in 1..Len(inv) : ~inv[i].json_ok})

\* importance_score > 0.7 and > 0.4, in tenths.
HighImportance == 7
MidImportance == 4

\* ------------------------------------------------------------------- state

VARIABLES
  pc,              \* workflow: "idle", "exploring", "done", "failed"
  start_url,       \* argument of run
  max_depth,       \* argument of run
  pages,           \* self.pages: url -> PageNode
  page_order,      \* the keys of self.pages in insertion order
  tree_structure,  \* self.tree_structure: url -> sequence of child urls
  stack,           \* activations of the nested explore(url, depth, parent_url)
  live,            \* url of the browser session's current page
  nav_count,       \* number of page.goto calls issued
  llm_calls,       \* number of _invoke_llm calls issued
  visits,          \* url -> number of times explore_page got past its guard
  site_links,      \* number of inventoried elements served so far
  met,             \* urls of the site the run has met so far
  bad_json,        \* number of analyzer responses that did not parse so far
  saved,           \* <<>> or <<snapshot written by save_results>>
  error,           \* the exception that left run, or None
  captured,        \* url -> the selector map and responses its visit was given
  settle_timed_out \* the last wait_for_load_state raised TimeoutError

wvars == <<pc, start_url, max_depth, pages, page_order, tree_structure, stack, live,
           nav_count, llm_calls, visits, site_links, met, bad_json, saved, error,
           captured, settle_timed_out>>

VARIABLES
  ppc,             \* player: "idle", "exploring", "finalized", "failed"
  pstack,          \* activations of the nested Player.explore_page
  visited_pages,   \* self.visited_pages
  child_nodes,     \* the add_child_node calls made, in order
  history,         \* the browser's session history; its last entry is the live page
  clicks,          \* number of click_element_by_selector actions issued
  click_fails,     \* number of those that failed
  backs,           \* number of go_back actions issued
  back_failed,     \* a go_back action has failed
  elems_served,    \* number of elements collected so far
  faults           \* number of controller actions that did not succeed so far

pvars == <<ppc, pstack, visited_pages, child_nodes, history, clicks,
           click_fails, backs, back_failed, elems_served, faults>>

VARIABLES
  lpc,                       \* _invoke_llm: "idle", "handling", "retry"
  llm,                       \* self.llm
  llm_switched_to_deepseek,  \* self.llm_switched_to_deepseek
  sent,                      \* the ainvoke calls made: request, collaborator, outcome
  calls,                     \* per _invoke_llm call: result and what getenv gave
  switches                   \* number of times self.llm was assigned

lvars == <<lpc, llm, llm_switched_to_deepseek, sent, calls, switches>>

VARIABLES
  note_calls,      \* number of add_element_note calls made
  last_note,       \* the arguments of the last add_element_note call
  saves            \* number of save_results calls made

nvars == <<note_calls, last_note, saves>>

VARIABLES
  session,         \* BrowserSession: "none" before it is built, then "built"
  allowed_domains, \* browser_profile.allowed_domains: absent, or a set of patterns
  last_url,        \* the argument of the last _is_url_allowed call
  last_allowed     \* what that call returned

avars == <<session, allowed_domains, last_url, last_allowed>>

VARIABLES
  path,            \* the segments the xpath argument was written from
  xpath,           \* the argument of the last _convert_simple_xpath_to_css_selector call
  css,             \* what that call returned
  converted,       \* whether the call has been made
  dom_element,     \* the DOMElementNode of the last _enhanced_css_selector_for_element call
  include_dynamic, \* its include_dynamic_attributes argument
  selector,        \* what that call returned
  synthesized      \* whether the call has been made

cvars == <<path, xpath, css, converted>>
evars == <<dom_element, include_dynamic, selector, synthesized>>
xvars == <<cvars, evars>>

VARIABLES
  tabs,            \* the urls of the open tabs, tab i of the code at position i + 1
  current,         \* index of the tab get_current_page returns, NoTab when there is none
  tab_op,          \* the last tab operation and its index argument
  tab_calls        \* number of tab operations made

tvars == <<tabs, current, tab_op, tab_calls>>

svars == <<avars, xvars, tvars>>

vars == <<wvars, pvars, lvars, nvars, svars>>

\* ------------------------------------------------- explore_page, the pieces

\* DOMHistoryElement kept for one inventoried element.
HistoryElement(inv, i) == [href |-> inv[i].href, highlight_index |-> i]

\* The entry stored whether or not the response parsed.
AnalyzedElementsKeepNone(inv) ==
  [i \in 1..Len(inv) |-> [element_id |-> i, importance_score |-> inv[i].importance]]

\* analyzed_elements: an entry for every element whose response parsed.
AnalyzedElements(inv) ==
  [i \in {j \in 1..Len(inv) : inv[j].json_ok} |->
     [element_id |-> i, importance_score |-> inv[i].importance]]

HasAnalysis(inv, i) == i \in DOMAIN AnalyzedElements(inv)

\* The high threshold met at equality.
GoesToClickableInclusive(inv, i) ==
  \/ inv[i].is_clickable
  \/ HasAnalysis(inv, i) /\ AnalyzedElements(inv)[i].importance_score >= HighImportance

\* if is_clickable or (analysis and analysis.importance_score > 0.7)
GoesToClickable(inv, i) ==
  \/ inv[i].is_clickable
  \/ HasAnalysis(inv, i) /\ AnalyzedElements(inv)[i].importance_score > HighImportance

\* The second test made whatever the first one gave.
GoesToSelectedAlso(inv, i) ==
  /\ HasAnalysis(inv, i)
  /\ AnalyzedElements(inv)[i].importance_score > MidImportance

\* elif analysis and analysis.importance_score > 0.4
GoesToSelected(inv, i) ==
  /\ ~GoesToClickable(inv, i)
  /\ HasAnalysis(inv, i)
  /\ AnalyzedElements(inv)[i].importance_score > MidImportance

\* The two lists of the partition loop, in selector-map order.
ClickableElements(inv) ==
  LET F[i \in 0..Len(inv)] ==
        IF i = 0 THEN <<>>
        ELSE IF GoesToClickable(inv, i)
             THEN Append(F[i - 1], HistoryElement(inv, i))
             ELSE F[i - 1]
  IN  F[Len(inv)]

SelectedElements(inv) ==
  LET F[i \in 0..Len(inv)] ==
        IF i = 0 THEN <<>>
        ELSE IF GoesToSelected(inv, i)
             THEN Append(F[i - 1], HistoryElement(inv, i))
             ELSE F[i - 1]
  IN  F[Len(inv)]

MakePageNode(url, parent_url, inv, purpose) ==
  [url |-> url,
   parent_url |-> parent_url,
   clickable_elements |-> ClickableElements(inv),
   selected_elements |-> SelectedElements(inv),
   analyzed_elements |-> AnalyzedElements(inv),
   notes |-> <<>>,
   page_purpose |-> purpose]

\* The guard left out: every call visits.
PageKnownNever(url) == FALSE

\* if url in self.pages: return
PageKnown(url) == url \in DOMAIN pages

\* The node stored under its parent's key instead of its own.
InsertPageUnderParent(node) ==
  pages @@ ((IF node.parent_url = None THEN node.url ELSE node.parent_url) :> node)

\* self.pages[url] = page_node
InsertPage(node) == (node.url :> node) @@ pages

\* A dict keeps a key's place when it is assigned again.
InsertKey(url) == IF url \in DOMAIN pages THEN page_order ELSE Append(page_order, url)

\* The child list assigned instead of appended to.
AppendChildOverwrites(parent_url, url) ==
  IF parent_url = None
  THEN tree_structure
  ELSE [p \in DOMAIN tree_structure \cup {parent_url} |->
          IF p = parent_url THEN <<url>> ELSE tree_structure[p]]

\* if parent_url: tree_structure.setdefault(parent_url, []).append(url)
AppendChild(parent_url, url) ==
  IF parent_url = None
  THEN tree_structure
  ELSE IF parent_url \in DOMAIN tree_structure
       THEN [tree_structure EXCEPT ![parent_url] = Append(@, url)]
       ELSE tree_structure @@ (parent_url :> <<url>>)

\* if page.url != url: await page.goto(url)
NavigateCount(url) == IF live # url THEN nav_count + 1 ELSE nav_count

\* ------------------------------------------------------ explore, the pieces

Frame(url, depth, parent_url) ==
  [url |-> url, depth |-> depth, parent_url |-> parent_url,
   st |-> "enter", idx |-> 1, reentry |-> FALSE]

Top == stack[Len(stack)]
Pop == SubSeq(stack, 1, Len(stack) - 1)
SetTop(f) == [stack EXCEPT ![Len(stack)] = f]

\* The bound off by one.
DepthExceededOffByOne(depth) == depth > max_depth + 1

\* if depth > max_depth: return
DepthExceeded(depth) == depth > max_depth

\* if element.attributes.get("href")
HasHref(element) == element.href # None

\* Equality instead of a prefix test.
InScopeOnlyStart(next_url) == next_url = start_url

\* if next_url.startswith(start_url)
InScope(next_url) == StartsWith(next_url, start_url)

\* ------------------------------------------------ PageExplorationWorkflow

WInit ==
  /\ pc = "idle"
  /\ start_url = None
  /\ max_depth = 0
  /\ pages = <<>>
  /\ page_order = <<>>
  /\ tree_structure = <<>>
  /\ stack = <<>>
  /\ live = Blank
  /\ nav_count = 0
  /\ llm_calls = 0
  /\ visits = [u \in AllUrls |-> 0]
  /\ site_links = 0
  /\ met = {}
  /\ bad_json = 0
  /\ saved = <<>>
  /\ error = None
  /\ captured = <<>>
  /\ settle_timed_out = FALSE

\* run(start_url, max_depth) -> explore_recursively -> explore(start_url, 1)
RunStart ==
  /\ pc = "idle"
  /\ \E s \in StartUrls, d \in 0..MaxDepthBound :
       /\ start_url' = s
       /\ max_depth' = d
       /\ stack' = <<Frame(s, 1, None)>>
       /\ met' = {s}
  /\ pc' = "exploring"
  /\ UNCHANGED <<pages, page_order, tree_structure, live, nav_count, llm_calls, visits,
                 site_links, bad_json, saved, error, captured, settle_timed_out>>
  /\ UNCHANGED <<svars, pvars, lvars, nvars>>

AtEnter == pc = "exploring" /\ stack # <<>> /\ Top.st = "enter"
AtIter == pc = "exploring" /\ stack # <<>> /\ Top.st = "iter"

\* explore: depth > max_depth, return.
ExploreDepthReturn ==
  /\ AtEnter
  /\ DepthExceeded(Top.depth)
  /\ stack' = Pop
  /\ UNCHANGED <<pc, start_url, max_depth, pages, page_order, tree_structure, live,
                 nav_count, llm_calls, visits, site_links, met, bad_json, saved, error,
                 captured, settle_timed_out>>
  /\ UNCHANGED <<svars, pvars, lvars, nvars>>

\* explore_page: url already in pages, return; explore goes on to its loop.
ExplorePageKnown ==
  /\ AtEnter
  /\ ~DepthExceeded(Top.depth)
  /\ PageKnown(Top.url)
  /\ stack' = SetTop([Top EXCEPT !.st = "iter", !.reentry = TRUE])
  /\ UNCHANGED <<pc, start_url, max_depth, pages, page_order, tree_structure, live,
                 nav_count, llm_calls, visits, site_links, met, bad_json, saved, error,
                 captured, settle_timed_out>>
  /\ UNCHANGED <<svars, pvars, lvars, nvars>>

\* except TimeoutError: print(...), and explore_page goes on.
OnSettleTimeoutRaise == "raise"

\* try: wait_for_load_state("networkidle") except TimeoutError: print(...)
OnSettleTimeout == "continue"

\* except json.JSONDecodeError left out.
OnParseFailureRaise == "raise"

\* except json.JSONDecodeError: write the error file, return None
OnParseFailure == "none"

\* The exception that leaves explore_page on account of the settle wait or
\* of a response that is not JSON.
VisitRaises(inv, purpose_ok, timed_out) ==
  IF timed_out /\ OnSettleTimeout = "raise"
  THEN "TimeoutError"
  ELSE IF (BadResponses(inv) > 0 \/ ~purpose_ok) /\ OnParseFailure = "raise"
       THEN "JSONDecodeError"
       ELSE None

\* explore_page: navigate, wait for the page to settle (timed_out: the wait
\* raised TimeoutError), capture, analyze every element and the page purpose,
\* partition, insert the node. purpose_ok = FALSE: the page-purpose response
\* was not JSON and page_purpose stays None.
ExplorePageRecord ==
  /\ AtEnter
  /\ ~DepthExceeded(Top.depth)
  /\ ~PageKnown(Top.url)
  /\ \E inv \in Inventories(start_url, MaxSiteLinks - site_links, met),
        purpose_ok \in BOOLEAN, timed_out \in BOOLEAN :
       /\ met' = MetAfter(inv, 1, met)
       /\ settle_timed_out' = timed_out
       /\ llm_calls' = llm_calls + Len(inv) + 1
       /\ site_links' = site_links + Len(inv)
       /\ bad_json' = bad_json + BadResponses(inv) + (IF purpose_ok THEN 0 ELSE 1)
       /\ bad_json' <= MaxBadJson
       /\ IF VisitRaises(inv, purpose_ok, timed_out) = None
          THEN /\ pages' = InsertPage(MakePageNode(Top.url, Top.parent_url, inv,
                                                   IF purpose_ok THEN "purpose" ELSE None))
               /\ tree_structure' = AppendChild(Top.parent_url, Top.url)
               /\ page_order' = InsertKey(Top.url)
               /\ captured' = captured @@ (Top.url :> [inv |-> inv, purpose_ok |-> purpose_ok])
               /\ stack' = SetTop([Top EXCEPT !.st = "iter"])
               /\ UNCHANGED <<pc, error>>
          ELSE /\ pc' = "failed"
               /\ error' = VisitRaises(inv, purpose_ok, timed_out)
               /\ stack' = <<>>
               /\ UNCHANGED <<pages, tree_structure, page_order, captured>>
  /\ live' = Top.url
  /\ nav_count' = NavigateCount(Top.url)
  /\ visits' = [visits EXCEPT ![Top.url] = @ + 1]
  /\ UNCHANGED <<start_url, max_depth, saved>>
  /\ UNCHANGED <<svars, pvars, lvars, nvars>>

\* explore_page: get_state_summary gave nothing, return without a node; the
\* caller's self.pages[url] then raises KeyError, which leaves run.
ExplorePageNoSummary ==
  /\ AtEnter
  /\ ~DepthExceeded(Top.depth)
  /\ ~PageKnown(Top.url)
  /\ \E timed_out \in BOOLEAN :
       /\ settle_timed_out' = timed_out
       /\ error' = IF VisitRaises(<<>>, TRUE, timed_out) = None
                   THEN "KeyError"
                   ELSE VisitRaises(<<>>, TRUE, timed_out)
  /\ live' = Top.url
  /\ nav_count' = NavigateCount(Top.url)
  /\ visits' = [visits EXCEPT ![Top.url] = @ + 1]
  /\ stack' = <<>>
  /\ pc' = "failed"
  /\ UNCHANGED <<start_url, max_depth, pages, page_order, tree_structure, llm_calls,
                 site_links, met, bad_json, saved, captured>>
  /\ UNCHANGED <<svars, pvars, lvars, nvars>>

\* The node inserted before the analysis.
PagesAtRaiseInserted(url, parent_url) ==
  InsertPage(MakePageNode(url, parent_url, <<>>, None))

\* self.pages[url] = page_node comes after the last _invoke_llm call of the
\* visit: a call that raises leaves self.pages as it was.
PagesAtRaise(url, parent_url) == pages

\* explore_page: the k-th _invoke_llm call of the visit raises (an element
\* analysis, or the page purpose when k is one past the inventory); the
\* exception leaves explore_page, every explore frame and run.
ExplorePageAnalyzerError ==
  /\ AtEnter
  /\ ~DepthExceeded(Top.depth)
  /\ ~PageKnown(Top.url)
  /\ \E n \in 0..Min(MaxSiteLinks - site_links, MaxLinks), k \in 1..(MaxLinks + 1) :
       /\ k <= n + 1
       /\ llm_calls' = llm_calls + k
       /\ site_links' = site_links + n
  /\ \E timed_out \in BOOLEAN :
       /\ settle_timed_out' = timed_out
       /\ error' = IF VisitRaises(<<>>, TRUE, timed_out) = None
                   THEN "AnalyzerError"
                   ELSE VisitRaises(<<>>, TRUE, timed_out)
  /\ pages' = PagesAtRaise(Top.url, Top.parent_url)
  /\ live' = Top.url
  /\ nav_count' = NavigateCount(Top.url)
  /\ visits' = [visits EXCEPT ![Top.url] = @ + 1]
  /\ stack' = <<>>
  /\ pc' = "failed"
  /\ UNCHANGED <<start_url, max_depth, page_order, tree_structure, met, bad_json, saved,
                 captured>>
  /\ UNCHANGED <<svars, pvars, lvars, nvars>>

LoopElements == pages[Top.url].clickable_elements

\* The recursive call made without its parent argument.
RecurseFrameNoParent(next_url) == Frame(next_url, Top.depth + 1, None)

\* await explore(next_url, depth + 1, url)
RecurseFrame(next_url) == Frame(next_url, Top.depth + 1, Top.url)

\* The loop staying on the same element.
NextElementSame(idx) == idx

\* for element in page_node.clickable_elements: on to the next element.
NextElement(idx) == idx + 1

\* explore: the element has an href inside the start url, recurse.
ExploreRecurse ==
  /\ AtIter
  /\ Top.idx <= Len(LoopElements)
  /\ HasHref(LoopElements[Top.idx])
  /\ InScope(LoopElements[Top.idx].href)
  /\ stack' = Append(SetTop([Top EXCEPT !.idx = NextElement(@)]),
                     RecurseFrame(LoopElements[Top.idx].href))
  /\ UNCHANGED <<pc, start_url, max_depth, pages, page_order, tree_structure, live,
                 nav_count, llm_calls, visits, site_links, met, bad_json, saved, error,
                 captured, settle_timed_out>>
  /\ UNCHANGED <<svars, pvars, lvars, nvars>>

\* explore: the element has no href or leaves the start url, next element.
ExploreSkipElement ==
  /\ AtIter
  /\ Top.idx <= Len(LoopElements)
  /\ ~(HasHref(LoopElements[Top.idx]) /\ InScope(LoopElements[Top.idx].href))
  /\ stack' = SetTop([Top EXCEPT !.idx = NextElement(@)])
  /\ UNCHANGED <<pc, start_url, max_depth, pages, page_order, tree_structure, live,
                 nav_count, llm_calls, visits, site_links, met, bad_json, saved, error,
                 captured, settle_timed_out>>
  /\ UNCHANGED <<svars, pvars, lvars, nvars>>

\* explore: the loop is over, return to the caller.
ExploreReturn ==
  /\ AtIter
  /\ Top.idx > Len(LoopElements)
  /\ stack' = Pop
  /\ UNCHANGED <<pc, start_url, max_depth, pages, page_order, tree_structure, live,
                 nav_count, llm_calls, visits, site_links, met, bad_json, saved, error,
                 captured, settle_timed_out>>
  /\ UNCHANGED <<svars, pvars, lvars, nvars>>

\* --------------------------------------- generate_documentation, save_results

\* root_pages = [url for url, page in self.pages.items() if not page.parent_url]
RootPages == SelectSeq(page_order, LAMBDA u : pages[u].parent_url = None)

\* Only the first child walked.
ChildrenFirstOnly(u) ==
  IF u \in DOMAIN tree_structure THEN SubSeq(tree_structure[u], 1, 1) ELSE <<>>

\* if url in self.tree_structure: for child_url in self.tree_structure[url]
Children(u) == IF u \in DOMAIN tree_structure THEN tree_structure[u] ELSE <<>>

\* What stands in the document for a walk that does not end.
Diverges == "diverges"

\* add_page_to_doc(url): the section of the page, then the sections of its
\* children. A walk nested deeper than fuel pages is on a cycle.
RECURSIVE AddPageToDoc(_, _)
AddPageToDoc(url, fuel) ==
  IF fuel = 0 THEN <<Diverges>>
  ELSE IF url \notin DOMAIN pages THEN <<"KeyError">>
  ELSE LET F[k \in 0..Len(Children(url))] ==
             IF k = 0 THEN <<url>>
             ELSE F[k - 1] \o AddPageToDoc(Children(url)[k], fuel - 1)
       IN  F[Len(Children(url))]

\* generate_documentation: the urls of the page sections, in document order.
GenerateDocumentation ==
  LET F[k \in 0..Len(RootPages)] ==
        IF k = 0 THEN <<>>
        ELSE F[k - 1] \o AddPageToDoc(RootPages[k], Cardinality(DOMAIN pages))
  IN  F[Len(RootPages)]

\* _convert_history_element_to_dict
ConvertHistoryElementToDict(element) ==
  [attributes |-> [href |-> element.href],
   highlight_index |-> element.highlight_index,
   text_content |-> None]

\* The notes left out of the snapshot.
ConvertPageWithoutNotes(page) ==
  [url |-> page.url,
   parent_url |-> page.parent_url,
   clickable_elements |->
     [i \in DOMAIN page.clickable_elements |->
        ConvertHistoryElementToDict(page.clickable_elements[i])],
   selected_elements |->
     [i \in DOMAIN page.selected_elements |->
        ConvertHistoryElementToDict(page.selected_elements[i])],
   analyzed_elements |->
     [k \in DOMAIN page.analyzed_elements |->
        [importance_score |-> page.analyzed_elements[k].importance_score]],
   notes |-> <<>>,
   page_purpose |-> IF page.page_purpose # None
                    THEN <<[main_purpose |-> page.page_purpose]>>
                    ELSE <<>>]

\* _convert_page_to_serializable: the analysis entries are written without
\* their element_id, under the key they are stored at; page_purpose is an
\* object or null (here a sequence of one object or none).
ConvertPageToSerializable(page) ==
  [url |-> page.url,
   parent_url |-> page.parent_url,
   clickable_elements |->
     [i \in DOMAIN page.clickable_elements |->
        ConvertHistoryElementToDict(page.clickable_elements[i])],
   selected_elements |->
     [i \in DOMAIN page.selected_elements |->
        ConvertHistoryElementToDict(page.selected_elements[i])],
   analyzed_elements |->
     [k \in DOMAIN page.analyzed_elements |->
        [importance_score |-> page.analyzed_elements[k].importance_score]],
   notes |-> page.notes,
   page_purpose |-> IF page.page_purpose # None
                    THEN <<[main_purpose |-> page.page_purpose]>>
                    ELSE <<>>]

\* save_results: the document and the data written to exploration_data.json.
SaveData ==
  [document |-> GenerateDocumentation,
   pages |-> [u \in DOMAIN pages |-> ConvertPageToSerializable(pages[u])],
   tree_structure |-> tree_structure]

\* run: explore_recursively returned, save_results writes the snapshot.
SaveResults ==
  /\ pc = "exploring"
  /\ stack = <<>>
  /\ saved' = <<SaveData>>
  /\ pc' = "done"
  /\ UNCHANGED <<start_url, max_depth, pages, page_order, tree_structure, stack, live,
                 nav_count, llm_calls, visits, site_links, met, bad_json, error,
                 captured, settle_timed_out>>
  /\ saves' = saves + 1
  /\ UNCHANGED <<svars, pvars, lvars, note_calls, last_note>>

WNext ==
  \/ RunStart
  \/ ExploreDepthReturn
  \/ ExplorePageKnown
  \/ ExplorePageRecord
  \/ ExplorePageNoSummary
  \/ ExplorePageAnalyzerError
  \/ ExploreRecurse
  \/ ExploreSkipElement
  \/ ExploreReturn
  \/ SaveResults

\* ------------------------------------------------------------------ Player

PlayerUrls == {Root, PageB, PageC}
Unknown == "unknown"

PInit ==
  /\ ppc = "idle"
  /\ pstack = <<>>
  /\ visited_pages = {}
  /\ child_nodes = <<>>
  /\ history = <<Blank>>
  /\ clicks = 0
  /\ click_fails = 0
  /\ backs = 0
  /\ back_failed = FALSE
  /\ elems_served = 0
  /\ faults = 0

\* An activation of explore_page(page_state): page_state["url"], and loc, the
\* page the browser showed when page_state was captured.
PFrame(url, loc) == [url |-> url, loc |-> loc, st |-> "enter", elems |-> <<>>, idx |-> 1]

PTop == pstack[Len(pstack)]
PPop == SubSeq(pstack, 1, Len(pstack) - 1)
PSetTop(f) == [pstack EXCEPT ![Len(pstack)] = f]

PLive == history[Len(history)]

\* The browser: a successful go_to_url or click loads a page and adds it to
\* the session history; a successful go_back leaves the newest entry.
BrowserLoad(url) == Append(history, url)
BrowserBack == IF Len(history) > 1 THEN SubSeq(history, 1, Len(history) - 1) ELSE history

\* run: load_page(start_url) succeeded, init_root_node, explore_page(root).
PlayerRun ==
  /\ ppc = "idle"
  /\ history' = BrowserLoad(Root)
  /\ pstack' = <<PFrame(Root, Root)>>
  /\ ppc' = "exploring"
  /\ UNCHANGED <<visited_pages, child_nodes, clicks, click_fails, backs, back_failed>>
  /\ UNCHANGED <<elems_served, faults>>
  /\ UNCHANGED <<wvars, lvars, nvars, svars>>

\* run: load_page raises RuntimeError when go_to_url does not succeed.
PlayerLoadFail ==
  /\ ppc = "idle"
  /\ ppc' = "failed"
  /\ UNCHANGED <<pstack, visited_pages, child_nodes, history, clicks,
                 click_fails, backs, back_failed>>
  /\ UNCHANGED <<elems_served, faults>>
  /\ UNCHANGED <<wvars, lvars, nvars, svars>>

PAt(st) == ppc = "exploring" /\ pstack # <<>> /\ PTop.st = st

\* if url in self.visited_pages: return
AlreadyVisited(url) == url \in visited_pages

\* explore_page: the page was visited, return.
PlayerSkipVisited ==
  /\ PAt("enter")
  /\ AlreadyVisited(PTop.url)
  /\ pstack' = PPop
  /\ UNCHANGED <<ppc, visited_pages, child_nodes, history, clicks,
                 click_fails, backs, back_failed>>
  /\ UNCHANGED <<elems_served, faults>>
  /\ UNCHANGED <<wvars, lvars, nvars, svars>>

\* explore_page: mark visited, collect the clickable elements (each with or
\* without a selector), annotate them, update the node, enter the loop.
PlayerCollect ==
  /\ PAt("enter")
  /\ ~AlreadyVisited(PTop.url)
  /\ visited_pages' = visited_pages \cup {PTop.url}
  /\ \E elems \in SeqsUpTo(BOOLEAN, MaxElems - elems_served) :
       /\ pstack' = PSetTop([PTop EXCEPT !.st = "loop", !.elems = elems])
       /\ elems_served' = elems_served + Len(elems)
  /\ UNCHANGED <<ppc, child_nodes, history, clicks, click_fails, backs, back_failed>>
  /\ UNCHANGED <<faults>>
  /\ UNCHANGED <<wvars, lvars, nvars, svars>>

InLoop == PAt("loop") /\ PTop.idx <= Len(PTop.elems)

\* loop: the element has no selector, continue.
PlayerNoSelector ==
  /\ InLoop
  /\ ~PTop.elems[PTop.idx]
  /\ pstack' = PSetTop([PTop EXCEPT !.idx = @ + 1])
  /\ UNCHANGED <<ppc, visited_pages, child_nodes, history, clicks,
                 click_fails, backs, back_failed>>
  /\ UNCHANGED <<elems_served, faults>>
  /\ UNCHANGED <<wvars, lvars, nvars, svars>>

\* A failed click treated like a failed go_back: return.
AfterClickFailReturns == PPop

\* What the loop does with its frame when the click did not succeed: continue.
AfterClickFail == PSetTop([PTop EXCEPT !.idx = @ + 1])

\* loop: the click fails, continue with the next element.
PlayerClickFail ==
  /\ InLoop
  /\ PTop.elems[PTop.idx]
  /\ clicks' = clicks + 1
  /\ click_fails' = click_fails + 1
  /\ faults < MaxFaults
  /\ faults' = faults + 1
  /\ pstack' = AfterClickFail
  /\ UNCHANGED <<ppc, visited_pages, child_nodes, history, backs, back_failed>>
  /\ UNCHANGED <<elems_served>>
  /\ UNCHANGED <<wvars, lvars, nvars, svars>>

\* loop: the click succeeds and loads a page; capture_current_page_state
\* reads its url ("unknown" when get_current_url fails); add_child_node;
\* explore_page(new_page_state).
PlayerClickOk ==
  /\ InLoop
  /\ PTop.elems[PTop.idx]
  /\ clicks' = clicks + 1
  /\ \E target \in PlayerUrls, url_ok \in BOOLEAN :
       LET new_url == IF url_ok THEN target ELSE Unknown
       IN  /\ url_ok \/ faults < MaxFaults
           /\ faults' = IF url_ok THEN faults ELSE faults + 1
           /\ history' = BrowserLoad(target)
           /\ child_nodes' = Append(child_nodes, [parent_url |-> PTop.url, url |-> new_url])
           /\ pstack' = Append(PSetTop([PTop EXCEPT !.st = "back"]), PFrame(new_url, target))
  /\ UNCHANGED <<ppc, visited_pages, click_fails, backs, back_failed>>
  /\ UNCHANGED <<elems_served>>
  /\ UNCHANGED <<wvars, lvars, nvars, svars>>

\* loop: go_back succeeded, next element.
PlayerBackOk ==
  /\ PAt("back")
  /\ backs' = backs + 1
  /\ history' = BrowserBack
  /\ pstack' = PSetTop([PTop EXCEPT !.st = "loop", !.idx = @ + 1])
  /\ UNCHANGED <<ppc, visited_pages, child_nodes, clicks, click_fails, back_failed>>
  /\ UNCHANGED <<elems_served, faults>>
  /\ UNCHANGED <<wvars, lvars, nvars, svars>>

\* What explore_page does with its frames when go_back did not succeed: return.
AfterBackFail == PPop

\* loop: go_back failed, log and return from this explore_page.
PlayerBackFail ==
  /\ PAt("back")
  /\ backs' = backs + 1
  /\ back_failed' = TRUE
  /\ faults < MaxFaults
  /\ faults' = faults + 1
  /\ pstack' = AfterBackFail
  /\ UNCHANGED <<ppc, visited_pages, child_nodes, history, clicks, click_fails>>
  /\ UNCHANGED <<elems_served>>
  /\ UNCHANGED <<wvars, lvars, nvars, svars>>

\* loop: no element is left, return.
PlayerLoopEnd ==
  /\ PAt("loop")
  /\ PTop.idx > Len(PTop.elems)
  /\ pstack' = PPop
  /\ UNCHANGED <<ppc, visited_pages, child_nodes, history, clicks,
                 click_fails, backs, back_failed>>
  /\ UNCHANGED <<elems_served, faults>>
  /\ UNCHANGED <<wvars, lvars, nvars, svars>>

\* run: explore_page(root) returned, finalize.
PlayerFinalize ==
  /\ ppc = "exploring"
  /\ pstack = <<>>
  /\ ppc' = "finalized"
  /\ UNCHANGED <<pstack, visited_pages, child_nodes, history, clicks,
                 click_fails, backs, back_failed>>
  /\ UNCHANGED <<elems_served, faults>>
  /\ UNCHANGED <<wvars, lvars, nvars, svars>>

PNext ==
  \/ PlayerRun
  \/ PlayerLoadFail
  \/ PlayerSkipVisited
  \/ PlayerCollect
  \/ PlayerNoSelector
  \/ PlayerClickFail
  \/ PlayerClickOk
  \/ PlayerBackOk
  \/ PlayerBackFail
  \/ PlayerLoopEnd
  \/ PlayerFinalize

\* -------------------------------------------------------- add_element_note

NoteUrls == {Evil, Other}
NoteIndexes == {1, 2}
NoteTexts == {"n1", "n2"}

NInit ==
  /\ note_calls = 0
  /\ last_note = None
  /\ saves = 0

\* The mapping replaced by the one entry.
NotesAfterReplaced(notes, index, note) == index :> note

\* self.pages[url].notes[str(element_index)] = note
NotesAfter(notes, index, note) == (index :> note) @@ notes

\* add_element_note(url, element_index, note), called on the workflow
\* object after run has ended.
AddElementNote ==
  /\ pc \in {"done", "failed"}
  /\ note_calls < MaxNotes
  /\ \E url \in NoteUrls, index \in NoteIndexes, note \in NoteTexts :
       /\ pages' = IF PageKnown(url)
                   THEN [pages EXCEPT ![url].notes = NotesAfter(@, index, note)]
                   ELSE pages
       /\ last_note' = [url |-> url, index |-> index, note |-> note]
  /\ note_calls' = note_calls + 1
  /\ UNCHANGED <<pc, start_url, max_depth, page_order, tree_structure, stack, live,
                 nav_count, llm_calls, visits, site_links, met, bad_json, saved, error,
                 captured, settle_timed_out>>
  /\ UNCHANGED <<svars, pvars, lvars, saves>>

\* run(SiteT, 2): a run on the small site, for the note calls to act on.
RunNoted ==
  /\ pc = "idle"
  /\ start_url' = SiteT
  /\ max_depth' = 2
  /\ stack' = <<Frame(SiteT, 1, None)>>
  /\ met' = {SiteT}
  /\ pc' = "exploring"
  /\ UNCHANGED <<pages, page_order, tree_structure, live, nav_count, llm_calls, visits,
                 site_links, bad_json, saved, error, captured, settle_timed_out>>
  /\ UNCHANGED <<svars, pvars, lvars, nvars>>

\* save_results called again on the workflow object after run has returned.
SaveResultsAgain ==
  /\ pc = "done"
  /\ saves < MaxSaves
  /\ saved' = <<SaveData>>
  /\ saves' = saves + 1
  /\ UNCHANGED <<pc, start_url, max_depth, pages, page_order, tree_structure, stack, live,
                 nav_count, llm_calls, visits, site_links, met, bad_json, error,
                 captured, settle_timed_out>>
  /\ UNCHANGED <<svars, pvars, lvars, note_calls, last_note>>

NoteNext ==
  \/ RunNoted
  \/ SaveResultsAgain
  \/ ExploreDepthReturn
  \/ ExplorePageKnown
  \/ ExplorePageRecord
  \/ ExplorePageNoSummary
  \/ ExplorePageAnalyzerError
  \/ ExploreRecurse
  \/ ExploreSkipElement
  \/ ExploreReturn
  \/ SaveResults
  \/ AddElementNote

\* ------------------------------------------------------------ _invoke_llm

\* The collaborator the workflow is built with, and the one it falls back to.
Primary == "gemini"
Secondary == "deepseek"

\* What an ainvoke call may raise: FailedPrecondition whose text has "User
\* location is not supported", another FailedPrecondition, another exception.
FailureKinds == {"region", "precondition", "other"}

LInit ==
  /\ lpc = "idle"
  /\ llm = Primary
  /\ llm_switched_to_deepseek = FALSE
  /\ sent = <<>>
  /\ calls = <<>>
  /\ switches = 0

\* await self.llm.ainvoke(messages), for the request of the call in progress.
Send(request, outcome) ==
  Append(sent, [req |-> request, to |-> llm, outcome |-> outcome,
                switched |-> llm_switched_to_deepseek])

\* The call in progress ends.
Finish(result, key) ==
  [calls EXCEPT ![Len(calls)] = [result |-> result, key |-> key]]

\* The flag left out of the condition.
CanFallBackIgnoringFlag(kind) == kind = "region"

\* if "User location is not supported" in str(e)
\*    and not self.llm_switched_to_deepseek
CanFallBack(kind) == kind = "region" /\ ~llm_switched_to_deepseek

\* The flag left as it was.
FlagAfterSwitchUnset == llm_switched_to_deepseek

\* self.llm_switched_to_deepseek = True
FlagAfterSwitch == TRUE

\* The retry retried.
AfterRetryFailureRetries == "retry"

\* return await self.llm.ainvoke(messages) inside the handler: what it raises
\* leaves _invoke_llm.
AfterRetryFailure == "idle"

\* _invoke_llm: the first ainvoke returns.
LlmReturn ==
  /\ lpc = "idle"
  /\ Len(calls) < MaxCalls
  /\ sent' = Send(Len(calls) + 1, "ok")
  /\ calls' = Append(calls, [result |-> "ok", key |-> "unread"])
  /\ UNCHANGED <<lpc, llm, llm_switched_to_deepseek, switches>>
  /\ UNCHANGED <<wvars, pvars, nvars, svars>>

\* _invoke_llm: the first ainvoke raises and the exception leaves the call,
\* either past the except clause or by raise e in its else branch.
LlmRaise ==
  /\ lpc = "idle"
  /\ Len(calls) < MaxCalls
  /\ \E kind \in FailureKinds :
       /\ ~CanFallBack(kind)
       /\ sent' = Send(Len(calls) + 1, kind)
  /\ calls' = Append(calls, [result |-> "raised", key |-> "unread"])
  /\ UNCHANGED <<lpc, llm, llm_switched_to_deepseek, switches>>
  /\ UNCHANGED <<wvars, pvars, nvars, svars>>

\* _invoke_llm: the first ainvoke raises the unsupported-location error and
\* the handler takes the fallback branch.
LlmRegionCaught ==
  /\ lpc = "idle"
  /\ Len(calls) < MaxCalls
  /\ CanFallBack("region")
  /\ sent' = Send(Len(calls) + 1, "region")
  /\ calls' = Append(calls, [result |-> "pending", key |-> "unread"])
  /\ lpc' = "handling"
  /\ UNCHANGED <<llm, llm_switched_to_deepseek, switches>>
  /\ UNCHANGED <<wvars, pvars, nvars, svars>>

\* The flag set although no switch was made.
FlagAfterNoKeySet == TRUE

\* raise e comes before the assignments of the handler: the flag stays.
FlagAfterNoKey == llm_switched_to_deepseek

\* handler: os.getenv("DEEPSEEK_API_KEY") gives nothing, raise e.
LlmNoKey ==
  /\ lpc = "handling"
  /\ calls' = Finish("raised", "missing")
  /\ lpc' = "idle"
  /\ llm_switched_to_deepseek' = FlagAfterNoKey
  /\ UNCHANGED <<llm, sent, switches>>
  /\ UNCHANGED <<wvars, pvars, nvars, svars>>

\* handler: the key is there, self.llm = ChatDeepSeek(...), the flag is set.
LlmSwitch ==
  /\ lpc = "handling"
  /\ llm' = Secondary
  /\ llm_switched_to_deepseek' = FlagAfterSwitch
  /\ switches' = switches + 1
  /\ calls' = [calls EXCEPT ![Len(calls)].key = "present"]
  /\ lpc' = "retry"
  /\ UNCHANGED sent
  /\ UNCHANGED <<wvars, pvars, nvars, svars>>

\* handler: the ainvoke on the new self.llm returns.
LlmRetryReturn ==
  /\ lpc = "retry"
  /\ sent' = Send(Len(calls), "ok")
  /\ calls' = Finish("ok", "present")
  /\ lpc' = "idle"
  /\ UNCHANGED <<llm, llm_switched_to_deepseek, switches>>
  /\ UNCHANGED <<wvars, pvars, nvars, svars>>

\* handler: the ainvoke on the new self.llm raises.
LlmRetryRaise ==
  /\ lpc = "retry"
  /\ \E kind \in FailureKinds : sent' = Send(Len(calls), kind)
  /\ lpc' = AfterRetryFailure
  /\ calls' = IF AfterRetryFailure = "idle" THEN Finish("raised", "present") ELSE calls
  /\ UNCHANGED <<llm, llm_switched_to_deepseek, switches>>
  /\ UNCHANGED <<wvars, pvars, nvars, svars>>

LNext ==
  \/ LlmReturn
  \/ LlmRaise
  \/ LlmRegionCaught
  \/ LlmNoKey
  \/ LlmSwitch
  \/ LlmRetryReturn
  \/ LlmRetryRaise

\* ------------------------------------------ BrowserSession._is_url_allowed

\* A host is the sequence of its labels; a url is its scheme ("" when it has
\* none) and its netloc, a host (<<>> when empty) and a port ("" when none).
Url(scheme, host, port) == [scheme |-> scheme, netloc |-> [host |-> host, port |-> port]]

ExampleCom == <<"example", "com">>
SubExampleCom == <<"sub", "example", "com">>
MysiteOrg == <<"mysite", "org">>
SubMysiteOrg == <<"sub", "mysite", "org">>
DeepMysiteOrg == <<"a", "sub", "mysite", "org">>
AnydomainCom == <<"anydomain", "com">>

Hosts == {ExampleCom, SubExampleCom, MysiteOrg, SubMysiteOrg, DeepMysiteOrg, AnydomainCom}

\* 'notaurl' (no scheme, no netloc), a scheme without a host, a host
\* without a scheme.
NotAUrl == Url("", <<>>, "")
MalformedUrls == {NotAUrl, Url("http", <<>>, ""), Url("", ExampleCom, "")}

CheckedUrls ==
  {Url("http", h, port) : h \in Hosts, port \in {"", "8080"}} \cup MalformedUrls

\* 'example.com' is Pattern(FALSE, ExampleCom), '*.mysite.org' is
\* Pattern(TRUE, MysiteOrg).
Pattern(wildcard, domain) == [wildcard |-> wildcard, domain |-> domain]

Patterns == {Pattern(w, d) : w \in BOOLEAN, d \in {ExampleCom, MysiteOrg, SubMysiteOrg}}

\* allowed_domains=None, or a list of at most MaxPatterns patterns.
Absent == [present |-> FALSE, patterns |-> {}]
Listed(ps) == [present |-> TRUE, patterns |-> ps]

Configurations ==
  {Absent} \cup {Listed(ps) : ps \in {qs \in SUBSET Patterns : Cardinality(qs) <= MaxPatterns}}

\* allowed = ['example.com', '*.mysite.org']
TestedPatterns == {Pattern(FALSE, ExampleCom), Pattern(TRUE, MysiteOrg)}

AInit ==
  /\ session = "none"
  /\ allowed_domains = Absent
  /\ last_url = NotAUrl
  /\ last_allowed = FALSE

\* A url with a port taken as unparseable.
ParsesPortless(url) ==
  url.scheme # "" /\ url.netloc.host # <<>> /\ url.netloc.port = ""

\* The url parses into a scheme and a host.
Parses(url) == url.scheme # "" /\ url.netloc.host # <<>>

\* The port kept in the compared host.
HostnameWithPort(url) ==
  IF url.netloc.port = "" THEN url.netloc.host ELSE Append(url.netloc.host, url.netloc.port)

\* The host of the url, its port stripped.
Hostname(url) == url.netloc.host

\* Only the hosts one label below the domain.
IsSubdomainOneLevel(host, domain) ==
  /\ Len(host) = Len(domain) + 1
  /\ SubSeq(host, 2, Len(host)) = domain

\* host ends with "." followed by domain.
IsSubdomain(host, domain) ==
  /\ Len(host) > Len(domain)
  /\ SubSeq(host, Len(host) - Len(domain) + 1, Len(host)) = domain

\* A wildcard that leaves the apex out.
MatchesPatternNoApex(host, p) ==
  IF p.wildcard THEN IsSubdomain(host, p.domain) ELSE host = p.domain

\* A bare domain matches the equal host alone; a wildcard *.d matches d and
\* every host below d.
MatchesPattern(host, p) ==
  IF p.wildcard
  THEN host = p.domain \/ IsSubdomain(host, p.domain)
  ELSE host = p.domain

\* Everything allowed, parsed or not, when no list is configured.
IsUrlAllowedUnparsed(url, config) ==
  \/ ~config.present
  \/ Parses(url) /\ \E p \in config.patterns : MatchesPattern(Hostname(url), p)

\* _is_url_allowed(url)
IsUrlAllowed(url, config) ==
  /\ Parses(url)
  /\ \/ ~config.present
     \/ \E p \in config.patterns : MatchesPattern(Hostname(url), p)

\* BrowserSession(browser_profile=BrowserProfile(allowed_domains=...))
NewSession ==
  /\ session = "none"
  /\ \E config \in Configurations : allowed_domains' = config
  /\ session' = "built"
  /\ UNCHANGED <<last_url, last_allowed>>
  /\ UNCHANGED <<wvars, pvars, lvars, nvars, xvars, tvars>>

\* context._is_url_allowed(url)
CheckUrl ==
  /\ session \in {"built", "checked"}
  /\ \E url \in CheckedUrls :
       /\ last_url' = url
       /\ last_allowed' = IsUrlAllowed(url, allowed_domains)
  /\ session' = "checked"
  /\ UNCHANGED allowed_domains
  /\ UNCHANGED <<wvars, pvars, lvars, nvars, xvars, tvars>>

SNext ==
  \/ NewSession
  \/ CheckUrl

\* ------------------- BrowserSession._convert_simple_xpath_to_css_selector

\* A string is the sequence of its pieces: '/ul/li[3]' is
\* <<"/", "ul", "/", "li", "[", "3", "]">>.
Tags == {"div", "li", "a"}
Indexes == {"1", "2"}

\* One segment /tag or /tag[N]; index "" is the segment without [N].
Segments == [tag : Tags, index : Indexes \cup {""}]

SegmentText(seg) ==
  IF seg.index = "" THEN <<"/", seg.tag>> ELSE <<"/", seg.tag, "[", seg.index, "]">>

\* The xpath string written from its segments.
RECURSIVE XPathOf(_)
XPathOf(segs) ==
  IF segs = <<>> THEN <<>> ELSE SegmentText(Head(segs)) \o XPathOf(Tail(segs))

CInit ==
  /\ path = <<>>
  /\ xpath = <<>>
  /\ css = <<>>
  /\ converted = FALSE

\* xpath.split('/') without the empty parts: cur is the part being read.
RECURSIVE SplitParts(_, _)
SplitParts(text, cur) ==
  IF text = <<>> THEN (IF cur = <<>> THEN <<>> ELSE <<cur>>)
  ELSE IF Head(text) = "/"
       THEN (IF cur = <<>> THEN <<>> ELSE <<cur>>) \o SplitParts(Tail(text), <<>>)
       ELSE SplitParts(Tail(text), Append(cur, Head(text)))

\* An index dropped from the token.
ConvertPartDropsIndex(part) == <<part[1]>>

\* tag[N] becomes tag:nth-of-type(N); tag stays tag.
ConvertPart(part) ==
  IF Len(part) >= 4 /\ part[2] = "[" /\ part[4] = "]"
  THEN <<part[1], ":nth-of-type(", part[3], ")">>
  ELSE part

\* ' > '.join(css_parts)
RECURSIVE JoinParts(_)
JoinParts(parts) ==
  IF parts = <<>> THEN <<>>
  ELSE IF Len(parts) = 1 THEN Head(parts)
  ELSE Head(parts) \o <<" > ">> \o JoinParts(Tail(parts))

\* _convert_simple_xpath_to_css_selector(xpath)
ConvertSimpleXPathToCssSelector(text) ==
  IF text = <<>> THEN <<>>
  ELSE LET parts == SplitParts(text, <<>>)
       IN  JoinParts([i \in 1..Len(parts) |-> ConvertPart(parts[i])])

\* BrowserSession._convert_simple_xpath_to_css_selector(xpath): a static
\* method, its calls share no state, so a behaviour holds one call.
ConvertXPath ==
  /\ ~converted
  /\ \E segs \in SeqsUpTo(Segments, MaxSegments) :
       /\ path' = segs
       /\ xpath' = XPathOf(segs)
       /\ css' = ConvertSimpleXPathToCssSelector(XPathOf(segs))
  /\ converted' = TRUE
  /\ UNCHANGED <<wvars, pvars, lvars, nvars, avars, evars, tvars>>

\* ----------------------- BrowserSession._enhanced_css_selector_for_element

\* attributes={'class': 'foo bar', 'id': 'my-id', 'placeholder': ...,
\* 'data-testid': '123'}: a value is the sequence of its pieces, the
\* whitespace and the double quote being pieces of their own.
AttributeValues ==
  [ class |-> <<"foo", " ", "bar">>,
    id |-> <<"my-id">>,
    placeholder |-> <<"say", " ", "\"", "hi", "\"">>,
    datatestid |-> <<"123">>,
    name |-> <<"q">> ]

AttributeNames == DOMAIN AttributeValues

\* Attributes recognised as framework-generated.
DynamicAttributes == {"datatestid"}

Attribute(n) == [name |-> n, value |-> AttributeValues[n]]

\* A dict of at most MaxAttrs attributes, in insertion order.
AttributeDicts ==
  {d \in SeqsUpTo({Attribute(n) : n \in AttributeNames}, MaxAttrs) :
     \A i, j \in 1..Len(d) : i # j => d[i].name # d[j].name}

\* xpath='/html/body/div[2]'
ElementPaths ==
  { <<[tag |-> "div", index |-> "2"]>>,
    <<[tag |-> "li", index |-> ""], [tag |-> "a", index |-> "1"]>> }

\* DOMElementNode(tag_name=..., xpath=..., attributes=...)
DOMElementNode(p, attrs) == [xpath |-> XPathOf(p), attributes |-> attrs]

EInit ==
  /\ dom_element = DOMElementNode(<<>>, <<>>)
  /\ include_dynamic = FALSE
  /\ selector = <<>>
  /\ synthesized = FALSE

\* value.split()
ClassTokens(value) == SelectSeq(value, LAMBDA piece : piece # " ")

\* One .token per class token.
RECURSIVE ClassPredicates(_)
ClassPredicates(tokens) ==
  IF tokens = <<>> THEN <<>>
  ELSE <<".", Head(tokens)>> \o ClassPredicates(Tail(tokens))

\* Each double quote of the value is prefixed by a backslash.
EscapeQuotes(value) ==
  [i \in 1..Len(value) |-> IF value[i] = "\"" THEN "\\\"" ELSE value[i]]

\* placeholder uses the substring match, the others the exact match.
Operator(n) == IF n = "placeholder" THEN "*=" ELSE "="

\* [name="value"] or [name*="value"]
AttributePredicate(attr) ==
  <<"[", attr.name, Operator(attr.name), "\"">> \o EscapeQuotes(attr.value) \o <<"\"", "]">>

RECURSIVE AttributePredicates(_)
AttributePredicates(attrs) ==
  IF attrs = <<>> THEN <<>>
  ELSE AttributePredicate(Head(attrs)) \o AttributePredicates(Tail(attrs))

\* The attributes after class, in dict order, the id among them.
PredicatesInDictOrder(attrs, dynamic) ==
  LET classes == SelectSeq(attrs, LAMBDA a : a.name = "class")
      others == SelectSeq(attrs, LAMBDA a :
                  a.name # "class" /\ (dynamic \/ a.name \notin DynamicAttributes))
  IN  (IF classes = <<>> THEN <<>> ELSE ClassPredicates(ClassTokens(classes[1].value)))
      \o AttributePredicates(others)

\* The class tokens, then the id, then the remaining attributes.
PredicatesInFixedOrder(attrs, dynamic) ==
  LET classes == SelectSeq(attrs, LAMBDA a : a.name = "class")
      ids == SelectSeq(attrs, LAMBDA a : a.name = "id")
      rest == SelectSeq(attrs, LAMBDA a :
                /\ a.name \notin {"class", "id"}
                /\ (dynamic \/ a.name \notin DynamicAttributes))
  IN  (IF classes = <<>> THEN <<>> ELSE ClassPredicates(ClassTokens(classes[1].value)))
      \o AttributePredicates(ids)
      \o AttributePredicates(rest)

\* _enhanced_css_selector_for_element(element, include_dynamic_attributes)
EnhancedCssSelectorForElement(el, dynamic) ==
  ConvertSimpleXPathToCssSelector(el.xpath) \o PredicatesInFixedOrder(el.attributes, dynamic)

\* BrowserSession._enhanced_css_selector_for_element(element, ...): a static
\* method, its calls share no state, so a behaviour holds one call.
EnhanceSelector ==
  /\ ~synthesized
  /\ \E p \in ElementPaths, attrs \in AttributeDicts, dynamic \in BOOLEAN :
       /\ dom_element' = DOMElementNode(p, attrs)
       /\ include_dynamic' = dynamic
       /\ selector' = EnhancedCssSelectorForElement(DOMElementNode(p, attrs), dynamic)
  /\ synthesized' = TRUE
  /\ UNCHANGED <<wvars, pvars, lvars, nvars, avars, cvars, tvars>>

XInit == CInit /\ EInit


\* ------------------------------------------------ BrowserSession, the tabs

AboutBlank == "about:blank"
HomeUrl == "http://base/"
ScrollTestUrl == "http://base/scroll_test"
TabUrls == {HomeUrl, ScrollTestUrl}

NoTab == -1

TabOp(op, index) == [op |-> op, index |-> index]

\* A started session has one blank tab, the current one.
TInit ==
  /\ tabs = <<AboutBlank>>
  /\ current = 0
  /\ tab_op = TabOp("none", NoTab)
  /\ tab_calls = 0

TabIndexes == 0..(Len(tabs) - 1)

\* browser_session.navigate(url): the current tab goes to url.
Navigate ==
  /\ tab_calls < MaxTabOps
  /\ current \in TabIndexes
  /\ \E url \in TabUrls : tabs' = [tabs EXCEPT ![current + 1] = url]
  /\ tab_op' = TabOp("navigate", current)
  /\ tab_calls' = tab_calls + 1
  /\ UNCHANGED current
  /\ UNCHANGED <<wvars, pvars, lvars, nvars, avars, xvars>>

\* The new tab, the last one, becomes the current page.
CurrentAfterCreate(now, opened) == Len(opened) - 1

\* browser_session.create_new_tab(url)
CreateNewTab ==
  /\ tab_calls < MaxTabOps
  /\ Len(tabs) < MaxTabs
  /\ \E url \in TabUrls :
       /\ tabs' = Append(tabs, url)
       /\ current' = CurrentAfterCreate(current, Append(tabs, url))
  /\ tab_op' = TabOp("create", NoTab)
  /\ tab_calls' = tab_calls + 1
  /\ UNCHANGED <<wvars, pvars, lvars, nvars, avars, xvars>>

\* browser_session.switch_to_tab(i)
SwitchToTab ==
  /\ tab_calls < MaxTabOps
  /\ \E i \in TabIndexes :
       /\ current' = i
       /\ tab_op' = TabOp("switch", i)
  /\ tab_calls' = tab_calls + 1
  /\ UNCHANGED tabs
  /\ UNCHANGED <<wvars, pvars, lvars, nvars, avars, xvars>>

\* The tabs all kept.
TabsWithoutNone(open, i) == open

\* The tabs without tab i.
TabsWithout(open, i) == SubSeq(open, 1, i) \o SubSeq(open, i + 2, Len(open))

\* browser_session.close_tab(i) while another tab stays open: tab i goes;
\* which of the remaining tabs is then current is not fixed here.
CloseTab ==
  /\ tab_calls < MaxTabOps
  /\ Len(tabs) > 1
  /\ \E i \in TabIndexes :
       /\ tabs' = TabsWithout(tabs, i)
       /\ current' \in 0..(Len(TabsWithout(tabs, i)) - 1)
       /\ tab_op' = TabOp("close", i)
  /\ tab_calls' = tab_calls + 1
  /\ UNCHANGED <<wvars, pvars, lvars, nvars, avars, xvars>>

\* browser_session.close_tab(0) on the only tab. What the session does then
\* is not fixed by the interface: the call is refused, or no tab is left and
\* none is current, or a fresh blank tab takes the place of the closed one.
CloseOnlyTab ==
  /\ tab_calls < MaxTabOps
  /\ Len(tabs) = 1
  /\ \/ UNCHANGED <<tabs, current>>
     \/ tabs' = <<>> /\ current' = NoTab
     \/ tabs' = <<AboutBlank>> /\ current' = 0
  /\ tab_op' = TabOp("close", 0)
  /\ tab_calls' = tab_calls + 1
  /\ UNCHANGED <<wvars, pvars, lvars, nvars, avars, xvars>>

TNext ==
  \/ Navigate
  \/ CreateNewTab
  \/ SwitchToTab
  \/ CloseTab
  \/ CloseOnlyTab

SInit == AInit /\ XInit /\ TInit

\* ---------------------------------------------------------- specifications

Init == WInit /\ PInit /\ LInit /\ NInit /\ SInit
Next == WNext
Spec == Init /\ [][Next]_vars

PlayerSpec == Init /\ [][PNext]_vars

\* Sequences of _invoke_llm calls on one workflow object.
LlmSpec == Init /\ [][LNext]_vars

\* One run of either program.
EitherNext ==
  \/ ppc = "idle" /\ WNext
  \/ pc = "idle" /\ PNext

EitherSpec == Init /\ [][EitherNext]_vars

\* A run on the small site, then add_element_note and save_results calls.
NoteSpec == Init /\ [][NoteNext]_vars

\* run(Root, max_depth) with a depth bound one above MaxDepthBound.
DeepDepth == MaxDepthBound + 1

RunDeep ==
  /\ pc = "idle"
  /\ start_url' = Root
  /\ max_depth' = DeepDepth
  /\ stack' = <<Frame(Root, 1, None)>>
  /\ met' = {Root}
  /\ pc' = "exploring"
  /\ UNCHANGED <<pages, page_order, tree_structure, live, nav_count, llm_calls, visits,
                 site_links, bad_json, saved, error, captured, settle_timed_out>>
  /\ UNCHANGED <<svars, pvars, lvars, nvars>>

DeepNext ==
  \/ RunDeep
  \/ ExploreDepthReturn
  \/ ExplorePageKnown
  \/ ExplorePageRecord
  \/ ExplorePageNoSummary
  \/ ExplorePageAnalyzerError
  \/ ExploreRecurse
  \/ ExploreSkipElement
  \/ ExploreReturn
  \/ SaveResults

\* Runs from the site's root with the deeper bound.
DeepSpec == Init /\ [][DeepNext]_vars

\* A run in which every call returns: run is one thread of control, each
\* await resumes, so a step that can be taken is taken.
FairSpec == Init /\ [][Next]_vars /\ WF_vars(Next)

\* A browser session and the urls checked against its allow-list.
SessionSpec == Init /\ [][SNext]_vars

\* One translation of an xpath into a structural selector.
XPathSpec == Init /\ [][ConvertXPath]_vars

\* The tab operations of one browser session.
TabSpec == Init /\ [][TNext]_vars

\* One synthesis of the selector of an element.
SelectorSpec == Init /\ [][EnhanceSelector]_vars

\* ------------------------------------------------------------------ claims

Count(seq, u) == Cardinality({i \in DOMAIN seq : seq[i] = u})

\* C1: every url listed in a tree_structure value list is a key of pages.
C1_ChildrenAreRecorded ==
  \A p \in DOMAIN tree_structure :
    \A i \in DOMAIN tree_structure[p] : tree_structure[p][i] \in DOMAIN pages

C1_Witness ==
  \E p \in DOMAIN tree_structure : Len(tree_structure[p]) >= 2

\* C2: a recorded page with a parent_url is listed exactly once over all
\* tree_structure lists, in its parent's list; a root page is listed nowhere.
C2_ListedOnceUnderParent ==
  \A u \in DOMAIN pages :
    LET parent == pages[u].parent_url
    IN  /\ parent # None =>
             /\ parent \in DOMAIN tree_structure
             /\ Count(tree_structure[parent], u) = 1
        /\ \A q \in DOMAIN tree_structure \ {parent} : Count(tree_structure[q], u) = 0

C2_Witness ==
  /\ \E p \in DOMAIN tree_structure : Len(tree_structure[p]) >= 2
  /\ \E i \in DOMAIN stack : stack[i].reentry
  /\ Cardinality(DOMAIN tree_structure) >= 2

\* C3: while a call explore(url, ...) whose url was already in pages is
\* active, pages and tree_structure do not change.
C3_ReentryChangesNothing ==
  [][(\E i \in DOMAIN stack : stack[i].reentry)
       => (pages' = pages /\ tree_structure' = tree_structure)]_vars

\* C4: explore_page gets past its membership guard at most once per url.
C4_VisitedAtMostOnce == \A u \in AllUrls : visits[u] <= 1

C4_Witness ==
  \E i \in DOMAIN stack : stack[i].reentry /\ visits[stack[i].url] = 1

\* C8: explore called with depth > max_depth returns and changes nothing: no
\* navigation, no analyzer call, pages and tree_structure as they were.
C8_DepthExceededNoEffect ==
  [][(AtEnter /\ Top.depth > max_depth)
       => /\ stack' = Pop
          /\ pages' = pages
          /\ tree_structure' = tree_structure
          /\ live' = live
          /\ nav_count' = nav_count
          /\ llm_calls' = llm_calls
          /\ visits' = visits]_vars

C8_Witness ==
  /\ AtEnter
  /\ Top.depth > max_depth
  /\ max_depth >= 1
  /\ Top.url \notin DOMAIN pages

InScopeLinks(u) ==
  {i \in DOMAIN pages[u].clickable_elements :
     /\ pages[u].clickable_elements[i].href # None
     /\ StartsWith(pages[u].clickable_elements[i].href, start_url)}

C10_PartialResultsPersisted ==
  (pc = "failed" /\ DOMAIN pages # {})
    => saved = <<SaveData>>

\* C5: once a go_back has failed, no element is clicked and no page is
\* explored any more.
C5_BackFailureStopsTraversal ==
  [][back_failed => (clicks' = clicks /\ visited_pages' = visited_pages)]_vars

\* C6: every click on an element of a page is issued while the browser shows
\* that page.
C6_ClickOnOwnPage ==
  [][clicks' > clicks => PLive = PTop.loc]_vars

\* C7: a failed click adds no child node, starts no recursion, issues no
\* go_back and moves the loop of the same page to its next element.
C7_FailedClickContinues ==
  [][click_fails' > click_fails
       => /\ child_nodes' = child_nodes
          /\ visited_pages' = visited_pages
          /\ backs' = backs
          /\ history' = history
          /\ ppc' = ppc
          /\ Len(pstack') = Len(pstack)
          /\ pstack'[Len(pstack)] = [PTop EXCEPT !.idx = @ + 1]]_vars

C7_Witness ==
  /\ PAt("loop")
  /\ click_fails = 1
  /\ clicks = 1
  /\ PTop.idx = 2
  /\ Len(PTop.elems) >= 2
  /\ PTop.elems[2]

\* The ainvoke calls made for the r-th _invoke_llm call, in order.
SendsOf(r) == SelectSeq(sent, LAMBDA m : m.req = r)

\* C11: in a sequence of _invoke_llm calls self.llm is replaced at most once,
\* it is the secondary collaborator from then on, and once a request was sent
\* to the secondary collaborator every later request is sent to it.
C11_FallbackOnceAndPermanent ==
  /\ switches <= 1
  /\ llm = (IF switches = 0 THEN Primary ELSE Secondary)
  /\ \A i, j \in DOMAIN sent :
       (i < j /\ sent[i].to = Secondary) => sent[j].to = Secondary

C11_Witness ==
  /\ lpc = "idle"
  /\ switches = 1
  /\ Len(calls) >= 3
  /\ \E i \in DOMAIN sent : sent[i].to = Secondary /\ sent[i].outcome = "region"
  /\ sent[Len(sent)].to = Secondary
  /\ sent[Len(sent)].req = Len(calls)

\* C12 as stated: a finished call whose first ainvoke raised the
\* unsupported-location error while the flag was unset sent its request
\* twice, the second time to the secondary collaborator, and raised exactly
\* when that second ainvoke raised.
C12_RetriedOnceOnSecondary ==
  \A r \in DOMAIN calls :
    ( /\ calls[r].result # "pending"
      /\ SendsOf(r)[1].outcome = "region"
      /\ ~SendsOf(r)[1].switched )
    => /\ Len(SendsOf(r)) = 2
       /\ SendsOf(r)[2].to = Secondary
       /\ (calls[r].result = "raised") = (SendsOf(r)[2].outcome # "ok")

\* C12: a finished call whose first ainvoke raised the unsupported-location
\* error while the flag was unset, and which found the secondary's API key,
\* sent its request twice, the second time to the secondary collaborator,
\* and raised exactly when that second ainvoke raised; no call sends its
\* request more than twice.
C12_RetriedOnceWhenKeyPresent ==
  /\ \A r \in DOMAIN calls : Len(SendsOf(r)) <= 2
  /\ \A r \in DOMAIN calls :
       ( /\ calls[r].result # "pending"
         /\ SendsOf(r)[1].outcome = "region"
         /\ ~SendsOf(r)[1].switched
         /\ calls[r].key = "present" )
       => /\ Len(SendsOf(r)) = 2
          /\ SendsOf(r)[2].to = Secondary
          /\ (calls[r].result = "raised") = (SendsOf(r)[2].outcome # "ok")

C12_Witness ==
  \E r \in DOMAIN calls :
    /\ calls[r].result = "raised"
    /\ calls[r].key = "present"
    /\ Len(SendsOf(r)) = 2
    /\ SendsOf(r)[1].to = Primary
    /\ SendsOf(r)[1].outcome = "region"
    /\ SendsOf(r)[2].to = Secondary
    /\ SendsOf(r)[2].outcome # "ok"

\* C13: an ainvoke that raises something other than the unsupported-location
\* error, or raises that error when the flag is already set, ends the call
\* with the exception and leaves self.llm and the flag as they were.
C13_OtherFailuresPropagate ==
  [][( /\ Len(sent') = Len(sent) + 1
       /\ sent'[Len(sent')].outcome # "ok"
       /\ (sent'[Len(sent')].outcome # "region" \/ llm_switched_to_deepseek) )
     => /\ llm' = llm
        /\ llm_switched_to_deepseek' = llm_switched_to_deepseek
        /\ lpc' = "idle"
        /\ calls'[Len(calls')].result = "raised"]_vars

C13_Witness ==
  /\ \E i \in DOMAIN sent :
       /\ sent[i].outcome = "region"
       /\ sent[i].switched
       /\ calls[sent[i].req].result = "raised"
  /\ \E j \in DOMAIN sent :
       /\ sent[j].outcome = "precondition"
       /\ ~sent[j].switched
       /\ calls[sent[j].req].result = "raised"
  /\ llm = Secondary
  /\ llm_switched_to_deepseek

\* Number of responses that did not parse in the visits that recorded a page.
ParseFailuresRecorded ==
  LET F[k \in 0..Len(page_order)] ==
        IF k = 0 THEN 0
        ELSE F[k - 1] + BadResponses(captured[page_order[k]].inv)
                      + (IF captured[page_order[k]].purpose_ok THEN 0 ELSE 1)
  IN  F[Len(page_order)]

C15_AnalyzerErrorLeavesState ==
  [][(error = None /\ error' = "AnalyzerError")
       => /\ pc' = "failed"
          /\ stack' = <<>>
          /\ Top.url \notin DOMAIN pages'
          /\ pages' = pages
          /\ tree_structure' = tree_structure
          /\ saved' = saved]_vars

C15_Witness ==
  /\ pc = "failed"
  /\ error = "AnalyzerError"
  /\ DOMAIN pages # {}
  /\ live \notin DOMAIN pages
  /\ visits[live] = 1
  /\ tree_structure # <<>>

\* C16: a settle-wait timeout and a response that is not JSON never leave
\* explore_page as an exception, and a failed click never ends the Player's
\* run: a workflow run fails only with KeyError or an analyzer error, a
\* Player run only when load_page fails, before any click.
C16_RecoveredErrorsStayLocal ==
  /\ error \in {None, "KeyError", "AnalyzerError"}
  /\ (pc = "failed") = (error # None)
  /\ ppc = "failed" => (clicks = 0 /\ click_fails = 0)

C16_Witness ==
  /\ pc = "done"
  /\ settle_timed_out
  /\ bad_json >= 1
  /\ Cardinality(DOMAIN pages) >= 2
  /\ error = None

\* C17: a visit whose settle wait timed out does not raise TimeoutError, and
\* when it records its page, the node, the tree entry and the activation's
\* next step are those the capture determines, as without a timeout.
C17_SettleTimeoutProceeds ==
  [][(visits' # visits /\ settle_timed_out')
       => /\ error' # "TimeoutError"
          /\ error' = None =>
               /\ Top.url \in DOMAIN captured'
               /\ pages' = InsertPage(MakePageNode(Top.url, Top.parent_url,
                                                   captured'[Top.url].inv,
                                                   IF captured'[Top.url].purpose_ok
                                                   THEN "purpose" ELSE None))
               /\ tree_structure' = AppendChild(Top.parent_url, Top.url)
               /\ stack' = SetTop([Top EXCEPT !.st = "iter"])]_vars

C17_Witness ==
  /\ pc = "exploring"
  /\ settle_timed_out
  /\ live \in DOMAIN pages
  /\ pages[live].parent_url # None
  /\ Len(captured[live].inv) = 2
  /\ Len(tree_structure[pages[live].parent_url]) >= 1

\* C18: every url in pages has the host of the start url.
C18_PagesWithinOrigin ==
  \A u \in DOMAIN pages : Host(u) = Host(start_url)

\* The element with highlight index i is in the list.
InList(list, i) == \E k \in DOMAIN list : list[k].highlight_index = i

\* C19 as stated: an element is in clickable_elements exactly when it is
\* natively clickable or its score is at least 0.7, and in selected_elements
\* exactly when it is not natively clickable and its score is at least 0.4
\* and below 0.7.
C19_PartitionInclusive ==
  \A u \in DOMAIN captured : \A i \in DOMAIN captured[u].inv :
    LET e == captured[u].inv[i]
    IN  /\ InList(pages[u].clickable_elements, i)
             = (e.is_clickable \/ (e.json_ok /\ e.importance >= HighImportance))
        /\ InList(pages[u].selected_elements, i)
             = ( /\ ~e.is_clickable
                 /\ e.json_ok
                 /\ e.importance >= MidImportance
                 /\ e.importance < HighImportance )

\* C19: an element is in clickable_elements exactly when it is natively
\* clickable or its score is above 0.7, and in selected_elements exactly
\* when it is not natively clickable and its score is above 0.4 and at most
\* 0.7; an element without analysis that is not natively clickable is in
\* neither list.
C19_PartitionStrict ==
  \A u \in DOMAIN captured : \A i \in DOMAIN captured[u].inv :
    LET e == captured[u].inv[i]
    IN  /\ InList(pages[u].clickable_elements, i)
             = (e.is_clickable \/ (e.json_ok /\ e.importance > HighImportance))
        /\ InList(pages[u].selected_elements, i)
             = ( /\ ~e.is_clickable
                 /\ e.json_ok
                 /\ e.importance > MidImportance
                 /\ e.importance <= HighImportance )

C19_Witness ==
  \E u \in DOMAIN captured :
    /\ Len(captured[u].inv) = 2
    /\ \A i \in 1..2 : ~captured[u].inv[i].is_clickable /\ captured[u].inv[i].json_ok
    /\ captured[u].inv[1].importance = HighImportance
    /\ captured[u].inv[2].importance = MidImportance
    /\ pages[u].clickable_elements = <<>>
    /\ Len(pages[u].selected_elements) = 1
    /\ pages[u].selected_elements[1].highlight_index = 1

\* C20: every importance_score stored in analyzed_elements lies in 0..1
\* (0..10 in tenths).
C20_ScoreInRange ==
  \A u \in DOMAIN pages : \A i \in DOMAIN pages[u].analyzed_elements :
    /\ pages[u].analyzed_elements[i].importance_score >= 0
    /\ pages[u].analyzed_elements[i].importance_score <= 10

\* The pages of the tree under u, parent first, children in list order.
RECURSIVE Preorder(_)
Preorder(u) ==
  LET F[k \in 0..Len(Children(u))] ==
        IF k = 0 THEN <<u>> ELSE F[k - 1] \o Preorder(Children(u)[k])
  IN  F[Len(Children(u))]

\* Position of the first element of the inventory of u whose href is c.
FirstLink(u, c) ==
  CHOOSE i \in DOMAIN captured[u].inv :
    /\ captured[u].inv[i].href = c
    /\ \A j \in 1..(i - 1) : captured[u].inv[j].href # c

\* C21: pages are inserted in the depth-first order of the recorded tree,
\* the subtree under an earlier link complete before a later sibling is
\* visited, and tree_structure[u] lists the children of u in the order of
\* their links in the inventory captured for u.
C21_DepthFirstCaptureOrder ==
  /\ page_order # <<>> => page_order = Preorder(start_url)
  /\ \A u \in DOMAIN tree_structure :
       \A a, b \in DOMAIN tree_structure[u] :
         a < b => FirstLink(u, tree_structure[u][a]) < FirstLink(u, tree_structure[u][b])

\* A page node without its notes.
Unnoted(node) == [node EXCEPT !.notes = <<>>]

\* C22: a url in pages stays in pages, and its node keeps every field other
\* than notes, through every step of the run and every add_element_note call.
C22_NodesImmutableButNotes ==
  [][\A u \in DOMAIN pages :
       /\ u \in DOMAIN pages'
       /\ Unnoted(pages'[u]) = Unnoted(pages[u])]_vars

C22_Witness ==
  /\ pc = "done"
  /\ DOMAIN pages = {SiteT, Evil}
  /\ pages[Evil].notes # <<>>
  /\ Len(pages[Evil].clickable_elements) = 2
  /\ note_calls = 2

\* C23: add_element_note(url, index, note) leaves the keys of pages and
\* tree_structure as they were; with url not in pages it changes nothing;
\* otherwise it changes only pages[url].notes, where it sets the entry of
\* index to note and keeps every other entry.
C23_NoteChangesOnlyItsEntry ==
  [][note_calls' = note_calls + 1 =>
       LET a == last_note'
       IN  /\ DOMAIN pages' = DOMAIN pages
           /\ tree_structure' = tree_structure
           /\ a.url \notin DOMAIN pages => pages' = pages
           /\ a.url \in DOMAIN pages =>
                /\ \A u \in DOMAIN pages \ {a.url} : pages'[u] = pages[u]
                /\ Unnoted(pages'[a.url]) = Unnoted(pages[a.url])
                /\ DOMAIN pages'[a.url].notes = DOMAIN pages[a.url].notes \cup {a.index}
                /\ pages'[a.url].notes[a.index] = a.note
                /\ \A k \in DOMAIN pages[a.url].notes \ {a.index} :
                     pages'[a.url].notes[k] = pages[a.url].notes[k]]_vars

C23_Witness ==
  /\ note_calls = 2
  /\ last_note.url = Evil
  /\ Evil \in DOMAIN pages
  /\ DOMAIN pages[Evil].notes = {1, 2}
  /\ pages[Evil].notes[1] # pages[Evil].notes[2]
  /\ pages[SiteT].notes = <<>>

\* C24: once a page is recorded, the urls in pages without a parent_url,
\* which generate_documentation takes as its roots, are the start url alone.
C24_RootIsStartUrl ==
  DOMAIN pages # {} =>
    /\ {u \in DOMAIN pages : pages[u].parent_url = None} = {start_url}
    /\ RootPages = <<start_url>>

C24_Witness ==
  /\ pc = "done"
  /\ Cardinality(DOMAIN pages) >= 3
  /\ RootPages = <<start_url>>
  /\ \E u \in DOMAIN pages \ {start_url} :
       \E i \in DOMAIN pages[u].clickable_elements :
         pages[u].clickable_elements[i].href = start_url

\* Position of the section of u in a document.
Pos(doc, u) == CHOOSE i \in DOMAIN doc : doc[i] = u

\* C25: the document written by save_results has exactly one section for
\* every page in pages and no other, the section of a page comes before
\* those of its children, and the children's sections come in the order of
\* the page's tree_structure list.
C25_OneSectionPerPage ==
  saved # <<>> =>
    LET doc == saved[1].document
    IN  /\ Len(doc) = Cardinality(DOMAIN pages)
        /\ {doc[i] : i \in DOMAIN doc} = DOMAIN pages
        /\ \A u \in DOMAIN tree_structure : \A a, b \in DOMAIN tree_structure[u] :
             /\ Pos(doc, u) < Pos(doc, tree_structure[u][a])
             /\ a < b => Pos(doc, tree_structure[u][a]) < Pos(doc, tree_structure[u][b])

C25_Witness ==
  /\ saved # <<>>
  /\ Len(saved[1].document) = 4
  /\ Len(tree_structure[start_url]) = 2
  /\ Cardinality(DOMAIN tree_structure) = 2

\* Reading a history element back from its dictionary.
ParseHistoryElement(d) ==
  [href |-> d.attributes.href, highlight_index |-> d.highlight_index]

\* Reading a page back from its dictionary; the element_id of an analysis
\* is the key it is stored under.
ParsePage(d) ==
  [url |-> d.url,
   parent_url |-> d.parent_url,
   clickable_elements |->
     [i \in DOMAIN d.clickable_elements |-> ParseHistoryElement(d.clickable_elements[i])],
   selected_elements |->
     [i \in DOMAIN d.selected_elements |-> ParseHistoryElement(d.selected_elements[i])],
   analyzed_elements |->
     [k \in DOMAIN d.analyzed_elements |->
        [element_id |-> k, importance_score |-> d.analyzed_elements[k].importance_score]],
   notes |-> d.notes,
   page_purpose |-> IF d.page_purpose = <<>> THEN None ELSE d.page_purpose[1].main_purpose]

ParseSnapshot(data) ==
  [pages |-> [u \in DOMAIN data.pages |-> ParsePage(data.pages[u])],
   tree_structure |-> data.tree_structure]

C27_BareDomainExactHost ==
  (/\ session = "checked"
   /\ allowed_domains.present
   /\ \A p \in allowed_domains.patterns : ~p.wildcard)
  => (last_allowed <=>
        /\ Parses(last_url)
        /\ \E p \in allowed_domains.patterns : last_url.netloc.host = p.domain)

\* http://example.com:8080 is allowed by ['example.com'].
C27_Witness ==
  /\ session = "checked"
  /\ allowed_domains = Listed({Pattern(FALSE, ExampleCom)})
  /\ last_url = Url("http", ExampleCom, "8080")
  /\ last_allowed

\* C28, as stated: a wildcard pattern *.d does not allow the bare apex host d
\* unless d is also listed separately (and no other pattern covers d).
C28_WildcardExcludesApex ==
  (/\ session = "checked"
   /\ allowed_domains.present
   /\ Parses(last_url)
   /\ \E p \in allowed_domains.patterns : p.wildcard /\ p.domain = last_url.netloc.host
   /\ \A p \in allowed_domains.patterns :
        /\ p.wildcard
        /\ ~IsSubdomain(last_url.netloc.host, p.domain))
  => ~last_allowed

\* C28, amended: a wildcard pattern *.d allows every subdomain of d and the
\* bare apex host d as well, whether or not d is listed separately.
C28_WildcardAllowsApex ==
  (/\ session = "checked"
   /\ allowed_domains.present
   /\ Parses(last_url)
   /\ \E p \in allowed_domains.patterns :
        /\ p.wildcard
        /\ \/ p.domain = last_url.netloc.host
           \/ IsSubdomain(last_url.netloc.host, p.domain))
  => last_allowed

\* https://mysite.org is allowed by ['*.mysite.org'] alone.
C28_Witness ==
  /\ session = "checked"
  /\ allowed_domains = Listed({Pattern(TRUE, MysiteOrg)})
  /\ last_url = Url("http", MysiteOrg, "")
  /\ last_allowed

C31_AbsentListAllowsParseable ==
  (/\ session = "checked"
   /\ ~allowed_domains.present
   /\ last_url.scheme # ""
   /\ last_url.netloc.host # <<>>)
  => last_allowed

\* http://anydomain.com:8080 is allowed when allowed_domains is None.
C31_Witness ==
  /\ session = "checked"
  /\ allowed_domains = Absent
  /\ last_url = Url("http", AnydomainCom, "8080")
  /\ last_allowed


\* The token of one segment, as a piece sequence.
SegmentToken(seg) ==
  IF seg.index = "" THEN <<seg.tag>> ELSE <<seg.tag, ":nth-of-type(", seg.index, ")">>

\* Positions of the ' > ' pieces in a selector.
Combinators(sel) == {i \in 1..Len(sel) : sel[i] = " > "}

\* The piece sequence between the (k-1)-th and the k-th ' > ' of a selector.
TokenAt(sel, k) ==
  LET cuts == Combinators(sel)
      from == IF k = 1 THEN 1
              ELSE 1 + CHOOSE i \in cuts : Cardinality({j \in cuts : j <= i}) = k - 1
      upto == IF k = Cardinality(cuts) + 1 THEN Len(sel)
              ELSE (CHOOSE i \in cuts : Cardinality({j \in cuts : j <= i}) = k) - 1
  IN  SubSeq(sel, from, upto)

\* C32: for a path of n >= 0 segments /tag or /tag[N] the translator returns
\* n tokens in the order of the segments, joined by ' > '; the token of
\* /tag[N] is tag:nth-of-type(N), the token of /tag is tag alone, and the
\* empty path gives the empty string.
C32_XPathTranslation ==
  converted =>
    /\ xpath = XPathOf(path)
    /\ (path = <<>>) => (css = <<>>)
    /\ (path # <<>>) =>
         /\ Cardinality(Combinators(css)) = Len(path) - 1
         /\ \A k \in 1..Len(path) : TokenAt(css, k) = SegmentToken(path[k])

\* '/li[2]/a' was translated to 'li:nth-of-type(2) > a'.
C32_Witness ==
  /\ converted
  /\ xpath = <<"/", "li", "[", "2", "]", "/", "a">>
  /\ css = <<"li", ":nth-of-type(", "2", ")", " > ", "a">>


\* Positions in a selector, after its first k pieces, where a predicate opens.
Openers(sel, k) == {i \in (k + 1)..Len(sel) : sel[i] \in {".", "["}}

\* The opening piece and the name of each predicate, in selector order.
PredicateHeads(sel, k) ==
  LET at == Openers(sel, k)
      nth(j) == CHOOSE i \in at : Cardinality({h \in at : h <= i}) = j
  IN  [j \in 1..Cardinality(at) |-> <<sel[nth(j)], sel[nth(j) + 1], sel[nth(j) + 2]>>]

\* The heads the predicates of an element are to have: one per class token
\* in source order, then the id with the exact match, then the remaining
\* attributes in source order, placeholder with the substring match.
ExpectedHeads(el, dynamic) ==
  LET attrs == el.attributes
      classes == SelectSeq(attrs, LAMBDA a : a.name = "class")
      tokens == IF classes = <<>> THEN <<>>
                ELSE SelectSeq(classes[1].value, LAMBDA piece : piece # " ")
      ids == SelectSeq(attrs, LAMBDA a : a.name = "id")
      rest == SelectSeq(attrs, LAMBDA a :
                /\ a.name \notin {"class", "id"}
                /\ (dynamic \/ a.name \notin DynamicAttributes))
  IN  [j \in 1..Len(tokens) |-> <<".", tokens[j], "">>]
      \o [j \in 1..Len(ids) |-> <<"[", "id", "=">>]
      \o [j \in 1..Len(rest) |->
            <<"[", rest[j].name, IF rest[j].name = "placeholder" THEN "*=" ELSE "=">>]

\* C33: the synthesized selector is the structural selector of the
\* element's path followed, with no whitespace, by one class predicate per
\* class token in source order, then the id as [id="..."] (never #id), then
\* the remaining attributes as attribute predicates, placeholder with *=.
C33_SelectorSynthesisOrder ==
  synthesized =>
    LET structural == ConvertSimpleXPathToCssSelector(dom_element.xpath)
        k == Len(structural)
        heads == PredicateHeads(selector \o <<"">>, k)
        expected == ExpectedHeads(dom_element, include_dynamic)
    IN  /\ Len(selector) >= k
        /\ SubSeq(selector, 1, k) = structural
        /\ Len(selector) > k => selector[k + 1] \in {".", "["}
        /\ \A i \in 1..Len(selector) : selector[i] # "#"
        /\ Len(heads) = Len(expected)
        /\ \A j \in 1..Len(heads) :
             /\ heads[j][1] = expected[j][1]
             /\ heads[j][2] = expected[j][2]
             /\ heads[j][1] = "[" => heads[j][3] = expected[j][3]

\* An element whose dict holds placeholder before id and class: the class
\* tokens come first, then the id, then the placeholder.
C33_Witness ==
  /\ synthesized
  /\ dom_element.attributes = <<Attribute("placeholder"), Attribute("id"), Attribute("class")>>
  /\ dom_element.xpath = <<"/", "div", "[", "2", "]">>
  /\ selector = <<"div", ":nth-of-type(", "2", ")", ".", "foo", ".", "bar",
                   "[", "id", "=", "\"", "my-id", "\"", "]",
                   "[", "placeholder", "*=", "\"", "say", " ", "\\\"", "hi", "\\\"", "\"", "]">>


\* Exactly one tab is the current one.
OneCurrentTab == current \in 0..(Len(tabs) - 1)

\* C34, as stated: create_new_tab increases the number of tabs by one and
\* makes the new tab current; switch_to_tab(i) makes tab i current and keeps
\* the number of tabs; close_tab(i) decreases the number of tabs by one; at
\* every moment exactly one tab is the current one.
C34_TabOperations ==
  [][tab_calls' = tab_calls + 1 =>
       /\ tab_op'.op = "create" =>
            Len(tabs') = Len(tabs) + 1 /\ current' = Len(tabs') - 1
       /\ tab_op'.op = "switch" =>
            Len(tabs') = Len(tabs) /\ current' = tab_op'.index
       /\ tab_op'.op = "close" => Len(tabs') = Len(tabs) - 1
       /\ OneCurrentTab']_vars

\* C34, amended: create_new_tab increases the number of tabs by one and
\* makes the new tab current; switch_to_tab(i) makes tab i current and keeps
\* the number of tabs; close_tab(i) decreases the number of tabs by one when
\* another tab stays open; at every moment at most one tab is the current
\* one, and exactly one whenever a tab is open.
C34_TabOperationsWhileATabStays ==
  [][tab_calls' = tab_calls + 1 =>
       /\ tab_op'.op = "create" =>
            Len(tabs') = Len(tabs) + 1 /\ current' = Len(tabs') - 1
       /\ tab_op'.op = "switch" =>
            Len(tabs') = Len(tabs) /\ current' = tab_op'.index
       /\ (tab_op'.op = "close" /\ Len(tabs) > 1) => Len(tabs') = Len(tabs) - 1
       /\ tabs' # <<>> => current' \in 0..(Len(tabs') - 1)
       /\ tabs' = <<>> => current' = NoTab]_vars

\* The tested run: a second tab was opened on the scroll test page, the
\* first tab was made current again and the second tab was closed.
C34_Witness ==
  /\ tab_op = TabOp("close", 1)
  /\ tab_calls = 4
  /\ tabs = <<HomeUrl>>
  /\ current = 0


\* Depth of a page in the recorded tree: the root has depth 1, a page is one
\* below the page named by its parent_url.
RECURSIVE TreeDepth(_)
TreeDepth(u) ==
  IF pages[u].parent_url = None \/ pages[u].parent_url \notin DOMAIN pages
  THEN 1
  ELSE 1 + TreeDepth(pages[u].parent_url)

\* C35: after a run every page in pages lies at tree depth <= max_depth,
\* also when a page is reachable by paths of different lengths.
C35_PagesWithinDepth ==
  pc = "done" => \A u \in DOMAIN pages : TreeDepth(u) <= max_depth


\* C36: the read self.pages[url] that explore makes after explore_page has
\* returned finds its key, also when the session gave no state summary: no
\* run ends in the KeyError of that read.
C36_ReadFindsKey == error # "KeyError"


\* C37: explore_recursively terminates on every finite link graph, cycles
\* and self-links included, and for every max_depth, when every browser and
\* analyzer call returns: a started run leaves the exploration, the stack of
\* explore activations empty.
C37_ExploreTerminates ==
  (pc = "exploring") ~> (pc \in {"done", "failed"} /\ stack = <<>>)

\* A finished run over a site whose start page links to itself and whose
\* second page links back to the start page.
C37_Witness ==
  /\ pc = "done"
  /\ stack = <<>>
  /\ start_url \in DOMAIN pages
  /\ \E i \in DOMAIN pages[start_url].clickable_elements :
       pages[start_url].clickable_elements[i].href = start_url
  /\ \E u \in DOMAIN pages \ {start_url} :
       \E i \in DOMAIN pages[u].clickable_elements :
         pages[u].clickable_elements[i].href = start_url


\* C38: in Player.explore_page each url is added to the operation tree as a
\* child node at most once per run and never as a child of itself.
C38_ChildAddedOnce ==
  /\ \A i, j \in DOMAIN child_nodes :
       child_nodes[i].url = child_nodes[j].url => i = j
  /\ \A i \in DOMAIN child_nodes : child_nodes[i].url # child_nodes[i].parent_url


\* C39: when the primary fails with the unsupported-location error and the
\* secondary's API key is missing, the error propagates without a retry and
\* the adapter is as before (collaborator the primary, flag unset), so a
\* later unsupported-location failure reads the key again.
C39_MissingKeyLeavesAdapter ==
  [][/\ (lpc = "handling" /\ lpc' = "idle")
        => /\ calls'[Len(calls')] = [result |-> "raised", key |-> "missing"]
           /\ sent' = sent
           /\ llm' = Primary
           /\ llm_switched_to_deepseek' = FALSE
     /\ \A r, q \in DOMAIN calls' :
          ( /\ r < q
            /\ calls'[r].key = "missing"
            /\ calls'[q].result # "pending"
            /\ SendsOf(q)'[1].outcome = "region"
            /\ \A m \in r..q : calls'[m].key # "present" \/ m = q )
          => calls'[q].key \in {"missing", "present"}]_vars

\* Two calls in a row met the unsupported-location error without a key; the
\* adapter is still on the primary with the flag unset.
C39_Witness ==
  /\ lpc = "idle"
  /\ \E r \in DOMAIN calls :
       /\ r + 1 \in DOMAIN calls
       /\ calls[r] = [result |-> "raised", key |-> "missing"]
       /\ calls[r + 1] = [result |-> "raised", key |-> "missing"]
  /\ llm = Primary
  /\ ~llm_switched_to_deepseek


\* The list holds elements of the inventory, in its capture order, each at
\* most once.
InCaptureOrder(list, inv) ==
  /\ \A k \in DOMAIN list :
       /\ list[k].highlight_index \in DOMAIN inv
       /\ list[k] = HistoryElement(inv, list[k].highlight_index)
  /\ \A k, l \in DOMAIN list :
       k < l => list[k].highlight_index < list[l].highlight_index

\* C40: for every recorded page clickable_elements and selected_elements
\* have no element in common, each inventoried element occurs at most once
\* across both, and each list keeps the capture order of the selector map.
C40_PartitionDisjointOrdered ==
  \A u \in DOMAIN captured :
    u \in DOMAIN pages =>
      /\ \A i \in DOMAIN captured[u].inv :
           ~(InList(pages[u].clickable_elements, i) /\ InList(pages[u].selected_elements, i))
      /\ InCaptureOrder(pages[u].clickable_elements, captured[u].inv)
      /\ InCaptureOrder(pages[u].selected_elements, captured[u].inv)

\* A page whose inventory went to both lists: its first element to
\* selected_elements, its second to clickable_elements.
C40_Witness ==
  \E u \in DOMAIN captured :
    /\ u \in DOMAIN pages
    /\ Len(captured[u].inv) = 2
    /\ pages[u].selected_elements = <<HistoryElement(captured[u].inv, 1)>>
    /\ pages[u].clickable_elements = <<HistoryElement(captured[u].inv, 2)>>

====
